---------------------------- MODULE Spec2Model ----------------------------
(***************************************************************************)
(* Rolling replacement of the instances of an AutoScaling group            *)
(* (aws/asg/rolling/deploy.py): Inventory keeps a shelve store mapping     *)
(* instance id -> 'pending_replacement' | 'terminated'; Deploy.execute     *)
(* slices the store's keys into batches, marks each member Unhealthy and   *)
(* polls EC2 until every member of the batch is 'terminated'.              *)
(***************************************************************************)
EXTENDS Integers, Sequences, FiniteSets, TLC

(* ---------------------------- bounds ----------------------------------- *)
\* instance ids are 1..MaxInst; the group holds ids 1..n for some n <= MaxInst
MaxInst == 3
\* largest positive --batch value explored
MaxBatch == 2
\* most negative --batch value explored is -MaxNeg
MaxNeg == 1
\* largest number of groups the describe call returns
MaxGroups == 2
\* largest number of entries a store file left by an earlier run holds
MaxStale == 1
\* loop iterations explored beyond MaxInst (a run with batch <= 0 never ends;
\* a run with batch > 0 takes at most MaxInst)
MaxSpin == 1
\* largest number of replacement instances the platform launches during a run
MaxRepl == 1

Ids == 1..MaxInst
ReplIds == (MaxInst + 1)..(MaxInst + MaxRepl)
BatchSizes == (0 - MaxNeg)..MaxBatch
Values == {"pending_replacement", "terminated"}

VARIABLES
    batch,            \* args.batch
    ngroups,          \* number of groups describe_auto_scaling_groups returns
    asgInstances,     \* groups[0]['Instances'], in the order returned
    ec2State,         \* EC2 side: instance.state['Name'] per id
    unhealthy,        \* ASG side: ids marked Unhealthy
    state,            \* Inventory.state: the shelf, a sequence of [id, st] in key order
    fileExists,       \* whether the store file exists on disk
    pc,               \* position of the main program
    total_instances,  \* execute's local
    instance_index,   \* execute's local
    remove,           \* execute's local: the current slice
    trigPos,          \* position of the for loop over remove
    monitored,        \* monitor_instance_termination's dict, as its key list
    pollList,         \* list(monitored.keys()) still to visit in this round
    exitStatus,       \* process exit status, -1 while running
    outcome,          \* how the run ended, "running" before
    prior,            \* history: the store's content when the run started
    snapshotted,      \* history: new_instance_state has returned
    snapshotKeys,     \* history: the store's key order when the snapshot was taken
    triggers,         \* history: ids passed to set_instance_health, in order
    batches,          \* history: the slices taken so far
    observed,         \* history: ids whose reload() reported 'terminated'
    groupMembers,     \* ASG side: the group's real membership now
    unflushed,        \* keys written to the shelf since its last sync()
    describeCalls,    \* history: number of describe_auto_scaling_groups calls
    queried,          \* history: ids whose reload() returned
    slept             \* history: sleep(15) was called

vars == <<batch, ngroups, asgInstances, ec2State, unhealthy, state, fileExists,
          pc, total_instances, instance_index, remove, trigPos, monitored,
          pollList, exitStatus, outcome, prior, snapshotted, snapshotKeys,
          triggers, batches, observed, groupMembers, unflushed,
          describeCalls, queried, slept>>

(* ------------------------- sequences helpers --------------------------- *)
Range(s) == {s[j] : j \in 1..Len(s)}

NoDup(s) == \A j, k \in 1..Len(s) : j # k => s[j] # s[k]

(* A mutation of Without: the element is not removed. *)
WithoutNothing(s, x) == s

(* del monitored[x] *)
Without(s, x) == SelectSeq(s, LAMBDA y : y # x)

RECURSIVE Flatten(_)
Flatten(ss) == IF ss = <<>> THEN <<>> ELSE Head(ss) \o Flatten(Tail(ss))

Count(s, x) == Cardinality({j \in 1..Len(s) : s[j] = x})

(* Python's s[lo:hi]: a negative bound counts from the end, and both are
   clipped to 0..len(s). *)
PyIndex(i, n) ==
    IF i < 0 THEN (IF i + n < 0 THEN 0 ELSE i + n)
    ELSE (IF i > n THEN n ELSE i)

PySlice(s, lo, hi) ==
    LET a == PyIndex(lo, Len(s))
        b == PyIndex(hi, Len(s))
    IN IF a < b THEN SubSeq(s, a + 1, b) ELSE <<>>

(* ------------------------------ the shelf ------------------------------ *)
Keys(s) == [j \in 1..Len(s) |-> s[j].id]

KeySet(s) == {s[j].id : j \in 1..Len(s)}

Get(s, k) == (CHOOSE j \in 1..Len(s) : s[j].id = k)

ValueOf(s, k) == s[Get(s, k)].st

RecordedTerminated(s, k) == k \in KeySet(s) /\ ValueOf(s, k) = "terminated"

InsertAt(s, p, e) == SubSeq(s, 1, p - 1) \o <<e>> \o SubSeq(s, p, Len(s))

(* A mutation of ShelfSetItem: rewriting a key moves it to the end of the
   key order. *)
ShelfSetItemMoves(s, k, v) ==
    {SelectSeq(s, LAMBDA e : e.id # k) \o <<[id |-> k, st |-> v]>>}

(* A mutation of ShelfSetItem: writing an existing key removes its entry. *)
ShelfSetItemDeletes(s, k, v) ==
    IF k \in KeySet(s) THEN {SelectSeq(s, LAMBDA e : e.id # k)}
    ELSE {InsertAt(s, p, [id |-> k, st |-> v]) : p \in 1..(Len(s) + 1)}

(* A mutation of ShelfSetItem: the write of an existing key is lost. *)
ShelfSetItemLost(s, k, v) ==
    IF k \in KeySet(s) THEN {s}
    ELSE {InsertAt(s, p, [id |-> k, st |-> v]) : p \in 1..(Len(s) + 1)}

(* self.state[k] = v on a shelf.  An existing key keeps its place in keys();
   a new key lands where the dbm backend puts it (hash order for dbm.gnu and
   dbm.ndbm, insertion order for dbm.dumb): any position. *)
ShelfSetItem(s, k, v) ==
    IF k \in KeySet(s)
    THEN {[j \in 1..Len(s) |-> IF s[j].id = k THEN [id |-> k, st |-> v] ELSE s[j]]}
    ELSE {InsertAt(s, p, [id |-> k, st |-> v]) : p \in 1..(Len(s) + 1)}

(* The for loop of new_instance_state: every id of the group is stored as
   'pending_replacement', on top of whatever the opened shelf holds. *)
RECURSIVE StoreAll(_, _)
StoreAll(s, ids) ==
    IF ids = <<>> THEN {s}
    ELSE UNION {StoreAll(t, Tail(ids)) :
                    t \in ShelfSetItem(s, Head(ids), "pending_replacement")}

(* The stores an earlier run can have left behind: at most MaxStale entries. *)
PriorStores ==
    {s \in UNION {[1..m -> [id : Ids, st : Values]] : m \in 0..MaxStale} :
        NoDup(Keys(s))}

(* --------------------------- Inventory.query_asg ----------------------- *)
(* A mutation of QueryAsg: an empty answer is taken as a group without
   instances. *)
QueryAsgNoExit(n) ==
    IF n = 1 THEN "found" ELSE IF n = 0 THEN "found" ELSE "none"

(* What query_asg does with len(groups) = n: returns groups[0], exits with
   status 1, or falls off the end of the if/elif and returns None. *)
QueryAsg(n) ==
    IF n = 1 THEN "found" ELSE IF n = 0 THEN "not_found" ELSE "none"

(* ------------------------------ Deploy --------------------------------- *)
(* A mutation of LoopCondition: the body runs once more at the end. *)
LoopConditionInclusive(idx, total) == idx <= total

(* while instance_index < total_instances *)
LoopCondition(idx, total) == idx < total

(* A mutation of NextSlice: the slice is one too long. *)
NextSliceLong(keys, idx, b) == PySlice(keys, idx, idx + b + 1)

(* list(self.inventory.state.keys())[instance_index:instance_index + batch] *)
NextSlice(keys, idx, b) == PySlice(keys, idx, idx + b)

(* A mutation of AdvanceIndex: the cursor moves by one whatever the batch. *)
AdvanceIndexByOne(idx, b) == idx + 1

(* A mutation of AdvanceIndex: the cursor does not move. *)
AdvanceIndexStuck(idx, b) == idx

(* instance_index += batch *)
AdvanceIndex(idx, b) == idx + b

(* A mutation of StillMonitoring: the wait ends with one instance left. *)
StillMonitoringEarly(m) == Len(m) > 1

(* while len(monitored) > 0 *)
StillMonitoring(m) == Len(m) > 0

Init ==
    /\ batch \in BatchSizes
    /\ ngroups \in 0..MaxGroups
    /\ state \in PriorStores
    /\ \E n \in 0..MaxInst :
        /\ asgInstances = [j \in 1..n |-> j]
        /\ ec2State = [i \in Ids |->
                IF i <= n /\ ~RecordedTerminated(state, i)
                THEN "running" ELSE "terminated"]
    /\ unhealthy = {}
    /\ fileExists = (state # <<>>)
    /\ pc = "start"
    /\ total_instances = 0
    /\ instance_index = 0
    /\ remove = <<>>
    /\ trigPos = 1
    /\ monitored = <<>>
    /\ pollList = <<>>
    /\ exitStatus = -1
    /\ outcome = "running"
    /\ prior = state
    /\ snapshotted = FALSE
    /\ snapshotKeys = <<>>
    /\ triggers = <<>>
    /\ batches = <<>>
    /\ observed = {}
    /\ groupMembers = Range(asgInstances)
    /\ unflushed = {}
    /\ describeCalls = 0
    /\ queried = {}
    /\ slept = FALSE

(* execute up to the loop: new_instance_state opens the shelf (creating the
   file), queries the group and stores its instances; then total_instances
   and instance_index are set. *)
NewInstanceState ==
    /\ pc = "start"
    /\ fileExists' = TRUE
    /\ \/ /\ QueryAsg(ngroups) = "found"
          /\ \E s \in StoreAll(state, asgInstances) :
                /\ state' = s
                /\ total_instances' = Len(s)
                /\ snapshotKeys' = Keys(s)
          /\ snapshotted' = TRUE
          /\ unflushed' = unflushed \cup Range(asgInstances)
          /\ instance_index' = 0
          /\ pc' = "loop"
          /\ UNCHANGED <<exitStatus, outcome>>
       \/ /\ QueryAsg(ngroups) = "not_found"
          /\ pc' = "exited"
          /\ exitStatus' = 1
          /\ outcome' = "GroupNotFound"
          /\ UNCHANGED <<state, total_instances, instance_index, snapshotted,
                         snapshotKeys, unflushed>>
       \/ /\ QueryAsg(ngroups) = "none"
          /\ pc' = "crashed"
          /\ exitStatus' = 1
          /\ outcome' = "TypeError"
          /\ UNCHANGED <<state, total_instances, instance_index, snapshotted,
                         snapshotKeys, unflushed>>
    /\ describeCalls' = describeCalls + 1
    /\ UNCHANGED <<batch, ngroups, asgInstances, ec2State, unhealthy, remove,
                   trigPos, monitored, pollList, prior, triggers, batches,
                   observed, groupMembers, queried, slept>>

(* One test of the while condition of execute, and, when it holds, the slice
   and the advance of the cursor. *)
LoopHead ==
    /\ pc = "loop"
    /\ \/ /\ LoopCondition(instance_index, total_instances)
          /\ Len(batches) < MaxInst + MaxSpin
          /\ remove' = NextSlice(Keys(state), instance_index, batch)
          /\ instance_index' = AdvanceIndex(instance_index, batch)
          /\ batches' = Append(batches, remove')
          /\ trigPos' = 1
          /\ pc' = "trigger"
       \/ /\ ~LoopCondition(instance_index, total_instances)
          /\ pc' = "returned"
          /\ UNCHANGED <<remove, instance_index, batches, trigPos>>
    /\ UNCHANGED <<batch, ngroups, asgInstances, ec2State, unhealthy, state,
                   fileExists, total_instances, monitored, pollList, exitStatus,
                   outcome, prior, snapshotted, snapshotKeys, triggers, observed,
                   groupMembers, unflushed, describeCalls, queried, slept>>

(* One iteration of `for i in remove: trigger_instance_removal(i)`. *)
TriggerInstanceRemoval ==
    /\ pc = "trigger"
    /\ trigPos <= Len(remove)
    /\ unhealthy' = unhealthy \cup {remove[trigPos]}
    /\ triggers' = Append(triggers, remove[trigPos])
    /\ trigPos' = trigPos + 1
    /\ UNCHANGED <<batch, ngroups, asgInstances, ec2State, state, fileExists, pc,
                   total_instances, instance_index, remove, monitored, pollList,
                   exitStatus, outcome, prior, snapshotted, snapshotKeys, batches,
                   observed, groupMembers, unflushed, describeCalls, queried,
                   slept>>

(* The call of monitor_instance_termination(remove): the dict of monitored
   instances is built (no request is sent yet). *)
MonitorStart ==
    /\ pc = "trigger"
    /\ trigPos > Len(remove)
    /\ monitored' = remove
    /\ pc' = "monitor"
    /\ UNCHANGED <<batch, ngroups, asgInstances, ec2State, unhealthy, state,
                   fileExists, total_instances, instance_index, remove, trigPos,
                   pollList, exitStatus, outcome, prior, snapshotted, snapshotKeys,
                   triggers, batches, observed, groupMembers, unflushed,
                   describeCalls, queried, slept>>

(* One test of `while len(monitored) > 0`; when it holds, the sleep and the
   list(monitored.keys()) the round iterates over. *)
MonitorLoop ==
    /\ pc = "monitor"
    /\ \/ /\ StillMonitoring(monitored)
          /\ slept' = TRUE
          /\ pollList' = monitored
          /\ pc' = "poll"
       \/ /\ ~StillMonitoring(monitored)
          /\ pc' = "loop"
          /\ UNCHANGED <<pollList, slept>>
    /\ UNCHANGED <<batch, ngroups, asgInstances, ec2State, unhealthy, state,
                   fileExists, total_instances, instance_index, remove, trigPos,
                   monitored, exitStatus, outcome, prior, snapshotted, snapshotKeys,
                   triggers, batches, observed, groupMembers, unflushed,
                   describeCalls, queried>>

(* One iteration of the for loop of a polling round: reload the instance and,
   when it is 'terminated', record it in the shelf and drop it. *)
PollInstance ==
    /\ pc = "poll"
    /\ pollList # <<>>
    /\ LET i == Head(pollList) IN
        \/ /\ ec2State[i] = "terminated"
           /\ \E s \in ShelfSetItem(state, i, "terminated") : state' = s
           /\ monitored' = Without(monitored, i)
           /\ observed' = observed \cup {i}
           /\ unflushed' = unflushed \cup {i}
        \/ /\ ec2State[i] # "terminated"
           /\ UNCHANGED <<state, monitored, observed, unflushed>>
    /\ queried' = queried \cup {Head(pollList)}
    /\ pollList' = Tail(pollList)
    /\ pc' = IF Tail(pollList) = <<>> THEN "monitor" ELSE "poll"
    /\ UNCHANGED <<batch, ngroups, asgInstances, ec2State, unhealthy, fileExists,
                   total_instances, instance_index, remove, trigPos, exitStatus,
                   outcome, prior, snapshotted, snapshotKeys, triggers, batches,
                   groupMembers, describeCalls, slept>>

(* os.unlink(args.state) after execute has returned; the program ends. *)
Unlink ==
    /\ pc = "returned"
    /\ fileExists' = FALSE
    /\ pc' = "done"
    /\ exitStatus' = 0
    /\ outcome' = "ok"
    /\ UNCHANGED <<batch, ngroups, asgInstances, ec2State, unhealthy, state,
                   total_instances, instance_index, remove, trigPos, monitored,
                   pollList, prior, snapshotted, snapshotKeys, triggers, batches,
                   observed, groupMembers, unflushed, describeCalls, queried,
                   slept>>

(* The platform terminates an instance that was marked Unhealthy; it leaves
   the group. *)
EnvTerminate(i) ==
    /\ i \in unhealthy
    /\ ec2State[i] = "running"
    /\ ec2State' = [ec2State EXCEPT ![i] = "terminated"]
    /\ groupMembers' = groupMembers \ {i}
    /\ UNCHANGED <<batch, ngroups, asgInstances, unhealthy, state, fileExists, pc,
                   total_instances, instance_index, remove, trigPos, monitored,
                   pollList, exitStatus, outcome, prior, snapshotted, snapshotKeys,
                   triggers, batches, observed, unflushed, describeCalls,
                   queried, slept>>

Terminate == \E i \in Ids : EnvTerminate(i)

(* The platform launches a replacement instance, with an id of its own, to
   bring the group back to its capacity. *)
Launch ==
    /\ Cardinality(groupMembers) < Len(asgInstances)
    /\ ReplIds \ groupMembers # {}
    /\ LET j == CHOOSE r \in ReplIds \ groupMembers :
                    \A q \in ReplIds \ groupMembers : r <= q
       IN groupMembers' = groupMembers \cup {j}
    /\ UNCHANGED <<batch, ngroups, asgInstances, ec2State, unhealthy, state,
                   fileExists, pc, total_instances, instance_index, remove,
                   trigPos, monitored, pollList, exitStatus, outcome, prior,
                   snapshotted, snapshotKeys, triggers, batches, observed,
                   unflushed, describeCalls, queried, slept>>

(* A mutation of CollaboratorFail: the exception is caught and reported, and
   the program carries on from where it was. *)
CollaboratorFailRetried ==
    /\ \/ pc = "start"
       \/ pc = "trigger" /\ trigPos <= Len(remove)
       \/ pc = "poll" /\ pollList # <<>>
    /\ outcome' = "CollaboratorApiError"
    /\ UNCHANGED <<batch, ngroups, asgInstances, ec2State, unhealthy, state,
                   fileExists, pc, total_instances, instance_index, remove,
                   trigPos, monitored, pollList, exitStatus, prior, snapshotted,
                   snapshotKeys, triggers, batches, observed, groupMembers,
                   unflushed, describeCalls, queried, slept>>

(* A mutation of CollaboratorFail: the store file is removed on the way out. *)
CollaboratorFailCleansUp ==
    /\ \/ pc = "start"
       \/ pc = "trigger" /\ trigPos <= Len(remove)
       \/ pc = "poll" /\ pollList # <<>>
    /\ fileExists' = FALSE
    /\ pc' = "crashed"
    /\ exitStatus' = 1
    /\ outcome' = "CollaboratorApiError"
    /\ describeCalls' = IF pc = "start" THEN describeCalls + 1 ELSE describeCalls
    /\ UNCHANGED <<batch, ngroups, asgInstances, ec2State, unhealthy, state,
                   total_instances, instance_index, remove, trigPos, monitored,
                   pollList, prior, snapshotted, snapshotKeys, triggers, batches,
                   observed, groupMembers, unflushed, queried, slept>>

(* A boto3 call raises (describe, set_instance_health or reload): nothing
   catches it, and the program ends with a traceback before os.unlink. *)
CollaboratorFail ==
    /\ \/ pc = "start"
       \/ pc = "trigger" /\ trigPos <= Len(remove)
       \/ pc = "poll" /\ pollList # <<>>
    /\ fileExists' = TRUE
    /\ pc' = "crashed"
    /\ exitStatus' = 1
    /\ outcome' = "CollaboratorApiError"
    /\ describeCalls' = IF pc = "start" THEN describeCalls + 1 ELSE describeCalls
    /\ UNCHANGED <<batch, ngroups, asgInstances, ec2State, unhealthy, state,
                   total_instances, instance_index, remove, trigPos, monitored,
                   pollList, prior, snapshotted, snapshotKeys, triggers, batches,
                   observed, groupMembers, unflushed, queried, slept>>

Step ==
    \/ NewInstanceState
    \/ LoopHead
    \/ TriggerInstanceRemoval
    \/ MonitorStart
    \/ MonitorLoop
    \/ PollInstance
    \/ Unlink

Next == Step \/ Terminate \/ Launch \/ CollaboratorFail

Spec == Init /\ [][Next]_vars

(* No collaborator call fails, the program keeps running, and the platform
   terminates every instance marked Unhealthy. *)
NextNoFail == Step \/ Terminate \/ Launch

LiveSpec ==
    /\ Init
    /\ [][NextNoFail]_vars
    /\ WF_vars(Step)
    /\ \A i \in Ids : WF_vars(EnvTerminate(i))

TypeOK ==
    /\ batch \in BatchSizes
    /\ pc \in {"start", "loop", "trigger", "monitor", "poll", "returned",
               "done", "exited", "crashed"}
    /\ NoDup(Keys(state))
    /\ exitStatus \in {-1, 0, 1}
(* ------------------------------ claims --------------------------------- *)
Ended == pc \in {"done", "exited", "crashed"}

Completed == pc \in {"returned", "done"}

Triggered == Range(triggers)

CeilDiv(n, b) == (n + b - 1) \div b

Min(a, b) == IF a < b THEN a ELSE b

(* C1: with a batch size > 0, at every point of the run, if a removal trigger
   has been issued for some member of batch k+1 then every member of batch k
   has been observed 'terminated' by monitor_instance_termination. *)
C1_BatchesNeverOverlap ==
    batch > 0 =>
        \A k \in 1..(Len(batches) - 1) :
            (Range(batches[k + 1]) \cap Triggered # {})
                => Range(batches[k]) \subseteq observed

C1_Witness ==
    /\ batch > 0
    /\ Len(batches) >= 2
    /\ Len(batches[1]) >= 2
    /\ Range(batches[2]) \cap Triggered # {}

(* C2: with a batch size B > 0 and N = the cardinality of the snapshot
   (total_instances), a completed run has taken exactly ceil(N/B) batches;
   every batch but the last has B members, the last has N mod B members if
   that is nonzero and B otherwise; B >= N > 0 gives one batch of size N. *)
C2_BatchCountAndSizes ==
    (Completed /\ batch > 0) =>
        /\ Len(batches) = CeilDiv(total_instances, batch)
        /\ \A k \in 1..(Len(batches) - 1) : Len(batches[k]) = batch
        /\ Len(batches) > 0 =>
              Len(batches[Len(batches)]) =
                  (IF total_instances % batch # 0
                   THEN total_instances % batch ELSE batch)
        /\ (total_instances > 0 /\ batch >= total_instances) =>
              (Len(batches) = 1 /\ Len(batches[1]) = total_instances)

C2_Witness ==
    /\ Completed
    /\ batch = 2
    /\ total_instances = 3
    /\ Len(batches) = 2
    /\ Len(batches[2]) = 1

(* C3: with a batch size B > 0, at every point of the run the number of
   instances that have received a removal trigger and have not yet been
   observed 'terminated' is at most B. *)
C3_AtMostBatchInFlight ==
    batch > 0 => Cardinality(Triggered \ observed) <= batch

C3_Witness ==
    /\ batch >= 2
    /\ pc = "poll"
    /\ Cardinality(Triggered \ observed) = batch

(* C4 (as amended): with a batch size > 0, the batches are consecutive
   contiguous slices of one stable ordering of the snapshot, the key order
   the store had when the snapshot was taken (which need not be the order
   in which the instances were first seen): the key order never changes
   while values are updated, the batches taken so far are the first
   instance_index keys, and over a completed run every key of the snapshot
   receives exactly one removal trigger, in that order. *)
C4_StableSlicesExactlyOnce ==
    (snapshotted /\ batch > 0) =>
        /\ Keys(state) = snapshotKeys
        /\ Flatten(batches) =
              SubSeq(snapshotKeys, 1, Min(instance_index, total_instances))
        /\ \A i \in Ids : Count(triggers, i) <= 1
        /\ Completed =>
              /\ triggers = snapshotKeys
              /\ \A i \in KeySet(state) : Count(triggers, i) = 1

C4_Witness ==
    /\ Completed
    /\ batch > 0
    /\ Len(batches) >= 2
    /\ Len(triggers) >= 3
    /\ \E i \in Ids : i \in KeySet(state) /\ ValueOf(state, i) = "terminated"

(* C4 as stated, for a run that starts from an empty store: the stable
   ordering the batches are sliced from is the first-seen order, the order in
   which the group query returned the instances, so a completed run with a
   batch size > 0 has triggered the instances in exactly that order. *)
C4_FirstSeenOrder ==
    (snapshotted /\ batch > 0 /\ prior = <<>>) =>
        /\ Keys(state) = asgInstances
        /\ Completed => triggers = asgInstances

(* C5: once new_instance_state has succeeded, the DeploymentState holds
   exactly the instances the group query returned, each recorded as
   'pending_replacement', whatever the store file held before the run; no
   entry of an earlier run is counted in N or triggered. *)
C5_SnapshotIsFresh ==
    snapshotted =>
        /\ KeySet(state) = Range(asgInstances)
        /\ total_instances = Len(asgInstances)
        /\ Triggered \subseteq Range(asgInstances)
        /\ (pc = "loop" /\ batches = <<>>) =>
              \A j \in 1..Len(state) : state[j].st = "pending_replacement"

(* C6: when execute has returned (the store is about to be deleted), the
   store holds exactly N = total_instances entries and every entry has the
   value 'terminated'. *)
C6_FinalStoreAllTerminated ==
    pc = "returned" =>
        /\ fileExists
        /\ Cardinality(KeySet(state)) = total_instances
        /\ Len(state) = total_instances
        /\ \A j \in 1..Len(state) : state[j].st = "terminated"

C6_Witness ==
    /\ pc = "returned"
    /\ total_instances >= 2
    /\ \A j \in 1..Len(state) : state[j].st = "terminated"

(* C7: a batch size <= 0 is rejected before scheduling begins, so a run with
   batch = 0 or a negative batch never issues a removal trigger. *)
C7_NonPositiveBatchRejected ==
    batch <= 0 => (triggers = <<>> /\ unhealthy = {})

(* C8: when no collaborator call fails and every triggered instance
   eventually reports 'terminated', a run with a batch size > 0 whose
   snapshot was taken (of any size N >= 0) eventually reaches the complete
   state, the cursor at or beyond N, and execute returns. *)
C8_EventuallyComplete ==
    (snapshotted /\ batch > 0)
        ~> (Completed /\ instance_index >= total_instances)

C8_Witness ==
    /\ pc = "returned"
    /\ batch > 0
    /\ Len(batches) >= 2
    /\ instance_index >= total_instances

(* C9: when the group query matches zero groups (and the call itself did not
   fail), the run has ended with the not-found outcome and exit status 1 as
   soon as it has left its start; no removal trigger was issued, nothing was
   observed, and the store records nothing it did not record before. *)
C9_GroupNotFound ==
    (ngroups = 0 /\ pc # "start" /\ outcome # "CollaboratorApiError") =>
        /\ pc = "exited"
        /\ outcome = "GroupNotFound"
        /\ exitStatus = 1
        /\ triggers = <<>>
        /\ unhealthy = {}
        /\ observed = {}
        /\ ~snapshotted
        /\ state = prior

C9_Witness ==
    /\ ngroups = 0
    /\ pc = "exited"
    /\ exitStatus = 1
    /\ Len(asgInstances) > 0

(* C10: when the group query matches more than one group (and the call
   itself did not fail), the run ends with a reported, fatal ambiguous-group
   error; no group's instances are snapshotted and no removal trigger is
   issued. *)
C10_GroupAmbiguous ==
    (ngroups > 1 /\ pc # "start" /\ outcome # "CollaboratorApiError") =>
        /\ Ended
        /\ outcome = "GroupAmbiguousError"
        /\ exitStatus # 0
        /\ ~snapshotted
        /\ triggers = <<>>
        /\ state = prior
(* C11: every termination the orchestrator has observed was recorded through
   the inventory's update operation, which flushes the store before the
   orchestrator continues: at no state is there an observed termination whose
   record is still unflushed.  Stated for the runs that start from an empty
   store with a batch size > 0. *)
C11_TerminationsFlushed ==
    (batch > 0 /\ prior = <<>>) => observed \cap unflushed = {}

(* C12: as long as a triggered member of batch k has not reported
   'terminated', the run is still in batch k: no slice after batch k has been
   taken (so no member of a later batch is triggered), execute has not
   completed and the store has not been deleted. *)
C12_StuckBatchBlocks ==
    \A k \in 1..Len(batches) :
        (\E i \in Range(batches[k]) :
              i \in Triggered /\ ec2State[i] # "terminated")
          => /\ Len(batches) = k
             /\ ~Completed
             /\ fileExists

C12_Witness ==
    /\ pc = "poll"
    /\ \E i \in Range(monitored) :
          /\ i \in queried
          /\ ec2State[i] = "running"
    /\ observed # {}
    /\ Len(Flatten(batches)) < total_instances

(* C13: a failed collaborator call is not retried: the run has ended with
   the error (exit status 1, the store file still there), and from then on
   no removal trigger is issued, no instance is recorded, and the store is
   not deleted. *)
C13_FailureEndsRun ==
    /\ [](outcome = "CollaboratorApiError" =>
            /\ pc = "crashed"
            /\ exitStatus = 1
            /\ fileExists)
    /\ [][outcome = "CollaboratorApiError" =>
            /\ pc' = pc
            /\ triggers' = triggers
            /\ unhealthy' = unhealthy
            /\ state' = state
            /\ observed' = observed
            /\ fileExists' = fileExists]_vars

C13_Witness ==
    /\ outcome = "CollaboratorApiError"
    /\ pc = "crashed"
    /\ observed # {}
    /\ \E i \in Triggered : i \notin observed
(* C14: over the whole run, an entry of the DeploymentState that is
   'terminated' is never set back to 'pending_replacement' by a later
   step. *)
C14_RecordedStateMonotonic ==
    [][\A i \in Ids :
          RecordedTerminated(state, i) => RecordedTerminated(state', i)]_vars

(* C15: the group is queried at most once per run, exactly once when the
   snapshot was taken; after the snapshot the key set of the DeploymentState
   is the one of the snapshot, and only keys of the snapshot are triggered,
   never a replacement instance the platform launched during the run. *)
C15_ScopeFixedAtSnapshot ==
    /\ describeCalls <= 1
    /\ snapshotted =>
          /\ describeCalls = 1
          /\ KeySet(state) = Range(snapshotKeys)
          /\ Len(state) = Len(snapshotKeys)
          /\ Triggered \subseteq Range(snapshotKeys)
          /\ Triggered \cap ReplIds = {}

C15_Witness ==
    /\ Completed
    /\ groupMembers \cap ReplIds # {}
    /\ groupMembers # Range(snapshotKeys)
    /\ Len(triggers) >= 2

(* C16: when the snapshot is empty (total_instances = 0), execute takes no
   batch and completes at once: no removal trigger, no lifecycle query, no
   polling sleep. *)
C16_EmptySnapshotCompletes ==
    (snapshotted /\ total_instances = 0) =>
        /\ pc \in {"loop", "returned", "done"}
        /\ batches = <<>>
        /\ triggers = <<>>
        /\ queried = {}
        /\ ~slept

C16_Witness ==
    /\ snapshotted
    /\ total_instances = 0
    /\ pc = "done"
    /\ batch <= 0

(* C17: the store file is deleted only on success: once the run has
   started, the file is gone only when execute has returned with every
   entry of the snapshot recorded 'terminated' and the run has ended with
   status 0; and a run that ended with status 0 has deleted it. *)
C17_StoreDeletedOnlyOnSuccess ==
    /\ (pc # "start" /\ ~fileExists) =>
          /\ pc = "done"
          /\ exitStatus = 0
          /\ snapshotted
          /\ instance_index >= total_instances
          /\ Len(state) = total_instances
          /\ \A j \in 1..Len(state) : state[j].st = "terminated"
    /\ exitStatus = 0 => (pc = "done" /\ ~fileExists)
    /\ pc = "done" => exitStatus = 0

C17_Witness ==
    /\ pc = "done"
    /\ ~fileExists
    /\ total_instances >= 2
    /\ Len(batches) >= 2

(* C18: within a batch, a polling round queries only ids still in the
   pending set: an id that was observed 'terminated' is no longer pending
   and is not among the ids still to be queried, and while the batch is
   being monitored the pending set only shrinks. *)
C18_OnlyPendingAreQueried ==
    /\ [](/\ observed \cap Range(monitored) = {}
          /\ pc = "poll" =>
                /\ Range(pollList) \subseteq Range(monitored)
                /\ Range(pollList) \cap observed = {})
    /\ [][(pc \in {"monitor", "poll"} /\ pc' \in {"monitor", "poll"}) =>
            Range(monitored') \subseteq Range(monitored)]_vars

C18_Witness ==
    /\ pc = "poll"
    /\ Len(remove) = 2
    /\ Len(monitored) = 1
    /\ pollList = monitored
    /\ Range(remove) \cap observed # {}

(* C19: once the snapshot is taken, an entry of the DeploymentState is
   'terminated' only if a removal trigger was issued for that instance in
   this run and a lifecycle query then reported it 'terminated'. *)
C19_TerminatedOnlyAfterTriggerAndReport ==
    snapshotted =>
        \A i \in KeySet(state) :
            RecordedTerminated(state, i) =>
                (i \in Triggered /\ i \in observed)

(* C20: within each batch every member has received its removal trigger
   before any member of the batch is queried, and the cursor has been
   advanced by the batch size, for a full and for a short slice alike,
   before the first trigger of the batch. *)
C20_TriggersBeforeQueries ==
    /\ \A k \in 1..Len(batches) :
          (Range(batches[k]) \cap queried # {})
              => Range(batches[k]) \subseteq Triggered
    /\ pc \in {"trigger", "monitor", "poll"} =>
          instance_index = Len(batches) * batch

C20_Witness ==
    /\ pc = "trigger"
    /\ trigPos = 1
    /\ Len(remove) > 0
    /\ Len(remove) < batch
    /\ instance_index > total_instances
=============================================================================
